---- MODULE Spec2Model ----
(***************************************************************************)
(* Model of the address-book redux Store of address-book-with-redux: the   *)
(* command loop (tui/repl_loop.rs), the two versions of the async-add      *)
(* middleware (tui/middleware.rs, tui/middlewares/add_async_cmd_mw.rs) and *)
(* the dispatch pipeline of the Store they drive; and of the parent/child  *)
(* tree of rust-book (data_structures/tree.rs).                            *)
(***************************************************************************)
EXTENDS Integers, Sequences, FiniteSets, TLC

(* ---------------------------------------------------------------- bounds *)

\* Number of dispatch calls the command loop issues in one run.
MaxCalls == 2

\* The command loop is process 0; fire-and-forget tasks are 1..MaxTasks. Every
\* call spawns at most one task.
ReplProc == 0
MaxTasks == MaxCalls
Tasks == 1..MaxTasks
Procs == {ReplProc} \cup Tasks

(* ------------------------------------------------------------ data model *)

None == [type |-> "None"]
Some(v) == [type |-> "Some", value |-> v]

AddContact(name, email, phone) ==
  [type |-> "AddContact", name |-> name, email |-> email, phone |-> phone]
RemoveContactById(id) == [type |-> "RemoveContactById", id |-> id]
RemoveAllContacts == [type |-> "RemoveAllContacts"]
Search(term) == [type |-> "Search", term |-> term]
ResetState(s) == [type |-> "ResetState", new_state |-> s]
\* Action::AsyncAddContact of tui/middleware.rs
AsyncAddContact == [type |-> "AsyncAddContact"]
\* Action::Mw(Mw::AsyncAddCmd) of tui/middlewares/add_async_cmd_mw.rs
MwAsyncAddCmd == [type |-> "Mw::AsyncAddCmd"]

\* State::default(): no contacts, no search term.
DefaultState == [address_book |-> <<>>, search_term |-> None]

\* FakeContactData, the payload of the asynchronous contact provider.
FakeContactData(name, phone_h, email_u, email_d) ==
  [name |-> name, phone_h |-> phone_h, email_u |-> email_u, email_d |-> email_d]

Ok(v) == [type |-> "Ok", value |-> v]
Err == [type |-> "Err"]

\* What fake_contact_data_api().await can produce: a payload or an error.
ProviderResults == {Ok(FakeContactData("Ann", "555", "a", "b.com")), Err}

\* A fallback that leaves phone_h to FakeContactData::default().
FallbackContactData_NoPhone == FakeContactData("Foo Bar", "", "foo", "bar.com")

\* The fallback of .unwrap_or_else(|_| FakeContactData { .. }).
FallbackContactData == FakeContactData("Foo Bar", "123-456-7890", "foo", "bar.com")

unwrap_or_else(result, fallback) ==
  IF result.type = "Ok" THEN result.value ELSE fallback

\* An address format that leaves the separator out.
FormatEmail_NoAt(email_u, email_d) == email_u \o email_d

\* format!("{}@{}", email_u, email_d)
FormatEmail(email_u, email_d) == email_u \o "@" \o email_d

\* The AddContact action both middleware versions build from the provider's
\* answer.
BuildAddContact(result) ==
  LET fake_data == unwrap_or_else(result, FallbackContactData)
  IN  AddContact(fake_data.name,
                 FormatEmail(fake_data.email_u, fake_data.email_d),
                 fake_data.phone_h)

\* Decimal formatting of a u8, as format!("{}", id) does.
Digit(d) ==
  CASE d = 0 -> "0" [] d = 1 -> "1" [] d = 2 -> "2" [] d = 3 -> "3"
    [] d = 4 -> "4" [] d = 5 -> "5" [] d = 6 -> "6" [] d = 7 -> "7"
    [] d = 8 -> "8" [] d = 9 -> "9"

RECURSIVE U8ToString(_)
U8ToString(n) ==
  IF n < 10 THEN Digit(n) ELSE U8ToString(n \div 10) \o Digit(n % 10)

\* Values of random::<u8>() the model draws for add-sync.
SyncIds == {42}

\* The "add-sync" arm's action.
AddSyncAction(id) ==
  AddContact("John Doe #" \o U8ToString(id),
             "jd@gmail.com #" \o U8ToString(id),
             "123-456-7890 #" \o U8ToString(id))

\* Lines typed at the "id> " prompt, as sequences of characters: two that are
\* identifiers and two that are not.
IdTexts == {<<"0">>, <<"1">>, <<"a", "b", "c">>, <<"1", "x">>}

DecimalDigits == {"0", "1", "2", "3", "4", "5", "6", "7", "8", "9"}

DigitValue(c) ==
  CASE c = "0" -> 0 [] c = "1" -> 1 [] c = "2" -> 2 [] c = "3" -> 3
    [] c = "4" -> 4 [] c = "5" -> 5 [] c = "6" -> 6 [] c = "7" -> 7
    [] c = "8" -> 8 [] c = "9" -> 9

RECURSIVE ParseDigits(_, _)
ParseDigits(text, acc) ==
  IF text = <<>> THEN acc
  ELSE ParseDigits(Tail(text), 10 * acc + DigitValue(Head(text)))

\* id.parse(): the number a line of decimal digits denotes, an error for
\* anything else (the empty line included).
parse(text) ==
  IF text # <<>> /\ \A i \in 1..Len(text) : text[i] \in DecimalDigits
  THEN Ok(ParseDigits(text, 0))
  ELSE Err

\* The identifiers the "remove" arm can dispatch and the terms typed at
\* "search_term> ".
RemoveIds == {parse(text).value : text \in {t \in IdTexts : parse(t) # Err}}
SearchTerms == {"Ann"}

\* Lines typed at the "r3bl> " prompt that no arm of the match names.
UnknownInputs == {"foo"}

(* ---------------------------------------------------------------- reducer *)

\* A removal that drops the first contact when no contact has the id.
RemoveById_OrFirst(book, id) ==
  IF \E i \in 1..Len(book) : book[i].id = id
  THEN SelectSeq(book, LAMBDA contact : contact.id # id)
  ELSE IF book = <<>> THEN <<>> ELSE Tail(book)

RECURSIVE RemoveById(_, _)
RemoveById(book, id) ==
  IF book = <<>> THEN <<>>
  ELSE IF Head(book).id = id THEN RemoveById(Tail(book), id)
  ELSE <<Head(book)>> \o RemoveById(Tail(book), id)

\* A reducer whose ResetState keeps the contacts already in the book and
\* adds those of the new state.
address_book_reducer_merging(s, a) ==
  CASE a.type = "AddContact" ->
         [s EXCEPT !.address_book =
            Append(@, [id |-> Len(@), name |-> a.name,
                       email |-> a.email, phone |-> a.phone])]
    [] a.type = "RemoveContactById" ->
         [s EXCEPT !.address_book = RemoveById(@, a.id)]
    [] a.type = "RemoveAllContacts" -> [s EXCEPT !.address_book = <<>>]
    [] a.type = "Search" -> [s EXCEPT !.search_term = Some(a.term)]
    [] a.type = "ResetState" ->
         [a.new_state EXCEPT !.address_book = s.address_book \o @]
    [] OTHER -> s

\* address_book_reducer: total; unhandled variants return the state unchanged.
address_book_reducer(s, a) ==
  CASE a.type = "AddContact" ->
         [s EXCEPT !.address_book =
            Append(@, [id |-> Len(@), name |-> a.name,
                       email |-> a.email, phone |-> a.phone])]
    [] a.type = "RemoveContactById" ->
         [s EXCEPT !.address_book = RemoveById(@, a.id)]
    [] a.type = "RemoveAllContacts" -> [s EXCEPT !.address_book = <<>>]
    [] a.type = "Search" -> [s EXCEPT !.search_term = Some(a.term)]
    [] a.type = "ResetState" -> a.new_state
    [] OTHER -> s

(* ------------------------------------------------------------ middleware *)

\* What one middleware call does, as the Store sees it: the Option<Action> it
\* returns, whether it spawns a task that dispatches on the Store, whether it
\* waits for that task before it returns, and whether it logs the action.
MwResult(ret, spawns, awaits, logs) ==
  [ret |-> ret, spawns |-> spawns, awaits |-> awaits, logs |-> logs]

\* A logging middleware that hands the Store an action of its own.
logger_mw_clearing(action) == MwResult(RemoveAllContacts, FALSE, FALSE, TRUE)

\* logger_mw: logs the action, returns None.
logger_mw(action) == MwResult(None, FALSE, FALSE, TRUE)

\* A version of add_async_cmd_mw that hands the fallback contact back to the
\* Store as a substitute, besides spawning the task.
add_async_cmd_mw_substituting(action) ==
  MwResult(IF action = AsyncAddContact THEN BuildAddContact(Err) ELSE None,
           action = AsyncAddContact, FALSE, FALSE)

\* A version of add_async_cmd_mw that waits for the task it spawned, the
\* dispatch on the Store included, before it returns.
add_async_cmd_mw_awaiting(action) ==
  MwResult(None, action = AsyncAddContact, TRUE, FALSE)

\* A version of add_async_cmd_mw that also spawns the task for the AddContact
\* the task dispatches.
add_async_cmd_mw_retriggering(action) ==
  MwResult(None, action.type \in {"AsyncAddContact", "AddContact"}, FALSE, FALSE)

\* A version of add_async_cmd_mw that spawns the task for every action.
add_async_cmd_mw_eager(action) == MwResult(None, TRUE, FALSE, FALSE)

\* add_async_cmd_mw: spawns add_async_cmd_impl for Action::AsyncAddContact
\* without awaiting it, returns None for every action.
add_async_cmd_mw(action) ==
  MwResult(None, action = AsyncAddContact, FALSE, FALSE)

\* AddAsyncCmdMw::run: for Action::Mw(Mw::AsyncAddCmd) returns
\* Some(AddContact built from the provider's answer), otherwise None.
AddAsyncCmdMw_run(action, result) ==
  IF action = MwAsyncAddCmd
  THEN MwResult(BuildAddContact(result), FALSE, FALSE, FALSE)
  ELSE MwResult(None, FALSE, FALSE, FALSE)

(* ---------------------------------------------------- store configuration *)

StoreOf(subscribers, middleware, reducers, trigger) ==
  [subscribers |-> subscribers, middleware |-> middleware,
   reducers |-> reducers, trigger |-> trigger]

\* create_store with the two middleware registered in the other order.
create_store_swapped ==
  StoreOf(<<"render_fn">>, <<"add_async_cmd_mw", "logger_mw">>,
          <<"address_book_reducer">>, AsyncAddContact)

\* create_store of tui/repl_loop.rs: one subscriber, logger_mw then
\* add_async_cmd_mw, one reducer.
create_store ==
  StoreOf(<<"render_fn">>, <<"logger_mw", "add_async_cmd_mw">>,
          <<"address_book_reducer">>, AsyncAddContact)

\* The Store of the trait-based version: AddAsyncCmdMw is its middleware and
\* Action::Mw(Mw::AsyncAddCmd) its trigger.
trait_store ==
  StoreOf(<<"render_fn">>, <<"AddAsyncCmdMw">>,
          <<"address_book_reducer">>, MwAsyncAddCmd)

\* create_store with a second subscriber registered after render_fn.
two_subscriber_store ==
  [create_store EXCEPT !.subscribers = Append(@, "second_subscriber")]

StoreConfigs == {create_store, trait_store, two_subscriber_store}

\* A Store whose substituting middleware AddAsyncCmdMw is registered before
\* logger_mw.
chained_store ==
  StoreOf(<<"render_fn">>, <<"AddAsyncCmdMw", "logger_mw">>,
          <<"address_book_reducer">>, MwAsyncAddCmd)

\* The actions the command loop can dispatch on a store.
ReplActions(st) ==
  {AddSyncAction(id) : id \in SyncIds}
    \cup {st.trigger, RemoveAllContacts, ResetState(DefaultState)}
    \cup {RemoveContactById(id) : id \in RemoveIds}
    \cup {Search(term) : term \in SearchTerms}

\* One iteration of the loop, as the terminal shows it: the command typed at
\* "r3bl> ", the line typed at the arm's own prompt, the dispatch calls the
\* arm made, the error it printed and the History it printed.
Command(name, typed, calls, error) ==
  [name |-> name, typed |-> typed, calls |-> calls, error |-> error,
   shown |-> None]

NoCommand == Command("none", None, 0, None)

(* ------------------------------------------------------------------- tree *)
\* rust-book/src/data_structures/tree.rs

\* Nodes ever allocated and add_child calls ever started in one run.
MaxNodes == 3
MaxAdds == 2

NodeIds == 1..MaxNodes

\* Weak::new(): a weak reference to nothing.
NoNode == 0

\* Values of T the callers pass to NodeRefHolder::new and to add_child.
NewValues == {5}
ChildValues == {3}

\* Threads calling into the tree.
Threads == {"t1", "t2"}

\* NodeData with its owners: `holder` is the NodeRefHolder made by new(),
\* `copies` the NodeRefs add_child returned that callers still hold. Callers
\* use what get_internal_ref_copy and get_parent return as temporaries.
NodeData(st, value, holder) ==
  [st |-> st, value |-> value, parent |-> NoNode, children |-> <<>>,
   holder |-> holder, copies |-> 0]

Unborn == NodeData("unborn", 0, FALSE)

Freed == NodeData("freed", 0, FALSE)

\* NodeRefHolder::new(value)
NodeRefHolder_new(value) == NodeData("live", value, TRUE)

\* A thread between the two blocks of add_child_and_update_its_parent;
\* `fresh` says the child was made by add_child.
Adding(parent, child, fresh) ==
  [parent |-> parent, child |-> child, fresh |-> fresh]

NotAdding == Adding(NoNode, NoNode, FALSE)

RECURSIVE Occurrences(_, _)
Occurrences(children, n) ==
  IF children = <<>> THEN 0
  ELSE (IF Head(children) = n THEN 1 ELSE 0) + Occurrences(Tail(children), n)

RECURSIVE SumOver(_, _, _)
SumOver(ns, set, n) ==
  IF set = {} THEN 0
  ELSE LET m == CHOOSE x \in set : TRUE
       IN  Occurrences(ns[m].children, n) + SumOver(ns, set \ {m}, n)

\* Arc::strong_count of node n: its holder, the copies callers hold and its
\* places in the children lists of live nodes.
strong_count(ns, n) ==
  (IF ns[n].holder THEN 1 ELSE 0) + ns[n].copies + SumOver(ns, NodeIds, n)

\* Arc::weak_count of node n: the live nodes whose parent field points at it.
weak_count(ns, n) ==
  Cardinality({m \in NodeIds : ns[m].st = "live" /\ ns[m].parent = n})

\* A drop that takes the children of a freed node with it, whoever else
\* holds them.
DropUnowned_Deep(ns) ==
  LET dead == {n \in NodeIds : ns[n].st = "live" /\ strong_count(ns, n) = 0}
      lost == {c \in NodeIds :
                 \E n \in dead : Occurrences(ns[n].children, c) > 0}
  IN  [n \in NodeIds |->
         IF n \in dead THEN Freed
         ELSE IF n \in lost THEN [ns[n] EXCEPT !.st = "freed"]
         ELSE ns[n]]

\* Dropping the last strong reference frees the NodeData: its children Vec
\* and its parent Weak are dropped with it, which may free children in turn.
RECURSIVE DropUnowned(_)
DropUnowned(ns) ==
  LET dead == {n \in NodeIds : ns[n].st = "live" /\ strong_count(ns, n) = 0}
  IN  IF dead = {} THEN ns
      ELSE DropUnowned([n \in NodeIds |-> IF n \in dead THEN Freed ELSE ns[n]])

\* get_parent: the parent Weak, upgraded.
get_parent(ns, n) ==
  LET parent == ns[n].parent
  IN  IF parent # NoNode /\ ns[parent].st = "live" THEN Some(parent) ELSE None

\* has_parent
has_parent(ns, n) == get_parent(ns, n) # None

\* The two RwLocks of every NodeData: `parent` and `children`.
RwLocks == NodeIds \X {"parent", "children"}

NoThread == "none"

\* A thread inside add_child_and_update_its_parent(self = parent, child): it
\* waits for or holds the guard named by `at`.
InCall(at, parent, child) == [at |-> at, parent |-> parent, child |-> child]

NotInCall == InCall("idle", NoNode, NoNode)

(* --------------------------------------------------------------- raw mode *)
\* tui-layout-crossterm/src/crossterm_helpers/raw_mode.rs

\* raw_mode! blocks ever entered, function activations on the stack and
\* raw_mode! blocks open at once in one activation, in one run.
MaxBlocks == 4
MaxFrames == 2
MaxDepth == 2

\* How control leaves a raw_mode! block: its end is reached, a `return`
\* inside it leaves the function, or `?` inside it propagates an error.
ExitPaths == {"normal", "return", "error"}

RECURSIVE SumSeq(_)
SumSeq(seq) == IF seq = <<>> THEN 0 ELSE Head(seq) + SumSeq(Tail(seq))

(* -------------------------------------------------------- runtime threads *)
\* #[tokio::main]: a multi-thread runtime with as many worker threads as the
\* machine has cores.

\* Worker threads of the runtime and dispatch_spawn calls per Store, in one
\* run.
MaxWorkers == 2
MaxDispatches == 2

\* Two Stores built by create_store that share nothing but the runtime.
StoreInstances == {"A", "B"}

(* ------------------------------------------------------------------ state *)

VARIABLES
  store,      \* the registration lists fixed at construction
  state,      \* the Store's published State
  history,    \* the Store's History
  lock,       \* holder of the Store's write lock, or -1
  pl,         \* per process: where it is in its dispatch call
  ncalls,     \* dispatch calls the command loop has issued
  issued,     \* the actions of the command loop's calls, in call order
  origin,     \* for each History entry: who committed it, with which answer
  spawned_by, \* for each task, the process and call that spawned it
  log,        \* the actions logger_mw logged
  cmd,        \* the command of the command loop's current iteration
  nodes,      \* the tree's nodes: lifetime, value, parent, children, owners
  adding,     \* per thread: the add_child call it is in the middle of
  nadds,      \* add_child calls started
  times_added, \* per node: the calls that added it as a child
  raw_on,     \* the terminal is in raw mode
  frames,     \* per function activation: the RawMode guards it holds
  enables,    \* calls of terminal::enable_raw_mode
  disables,   \* calls of terminal::disable_raw_mode
  left_by,    \* how control left the last raw_mode! block or function
  worker_threads, \* worker threads of the runtime, 0 before it starts
  dtask,      \* per Store instance: where its spawned dispatch is
  ndisp,      \* per Store instance: dispatch_spawn calls made
  rwlock,     \* per RwLock of a node: the thread holding its write guard
  tpc         \* per thread: where it is in add_child_and_update_its_parent

termVars == <<raw_on, frames, enables, disables, left_by>>

poolVars == <<worker_threads, dtask, ndisp>>

lockVars == <<rwlock, tpc>>

aux == <<nodes, adding, nadds, times_added, termVars, poolVars, lockVars>>

vars == <<store, state, history, lock, pl, ncalls, issued, origin, spawned_by,
          log, cmd, aux>>

NoProc == -1

Pipeline(stage, cur) ==
  [stage |-> stage, idx |-> 0, cur |-> cur, work |-> None, delayed |-> FALSE,
   fetched |-> None, spawned |-> NoProc, answer |-> None,
   trace |-> <<>>, notes |-> <<>>, result |-> "none"]

\* The state after construction of one of the given stores.
InitOf(configs) ==
  /\ store \in configs
  /\ state = DefaultState
  /\ history = <<>>
  /\ lock = NoProc
  /\ pl = [p \in Procs |->
             IF p = ReplProc THEN Pipeline("idle", None)
             ELSE Pipeline("unborn", None)]
  /\ ncalls = 0
  /\ issued = <<>>
  /\ origin = <<>>
  /\ spawned_by = [t \in Tasks |-> [by |-> NoProc, call |-> 0]]
  /\ log = <<>>
  /\ cmd = NoCommand
  /\ nodes = [n \in NodeIds |-> Unborn]
  /\ adding = [th \in Threads |-> NotAdding]
  /\ nadds = 0
  /\ times_added = [n \in NodeIds |-> 0]
  /\ raw_on = FALSE
  /\ frames = <<0>>
  /\ enables = 0
  /\ disables = 0
  /\ left_by = "none"
  /\ worker_threads = 0
  /\ dtask = [s \in StoreInstances |-> "none"]
  /\ ndisp = [s \in StoreInstances |-> 0]
  /\ rwlock = [l \in RwLocks |-> NoThread]
  /\ tpc = [th \in Threads |-> NotInCall]

Init == InitOf(StoreConfigs)

InCritical(p) == pl[p].stage \in {"mw", "reduce", "commit", "notify", "return"}

(* ------------------------------------------------------- the command loop *)

\* The arm of the match that dispatches action a.
CommandOf(a) ==
  CASE a.type = "AddContact" -> "add-sync"
    [] a.type \in {"AsyncAddContact", "Mw::AsyncAddCmd"} -> "add-async"
    [] a.type = "RemoveAllContacts" -> "clear"
    [] a.type = "RemoveContactById" -> "remove"
    [] a.type = "Search" -> "search"
    [] a.type = "ResetState" -> "reset"

\* The line read at the arm's own prompt before a is dispatched.
TypedFor(a) ==
  CASE a.type = "RemoveContactById" ->
         Some(CHOOSE text \in IdTexts : parse(text) = Ok(a.id))
    [] a.type = "Search" -> Some(a.term)
    [] OTHER -> None

\* main ends, by return or by panic: the runtime is dropped, which cancels
\* every task and with it any hold on the Store's lock.
Shutdown(stage) ==
  /\ pl' = [p \in Procs |->
              IF p = ReplProc THEN [pl[p] EXCEPT !.stage = stage]
              ELSE Pipeline("cancelled", None)]
  /\ lock' = NoProc

AtPrompt == pl[ReplProc].stage = "idle"

\* store.dispatch(&action) / store.dispatch_spawn(action) of one loop arm:
\* the call is issued and waits for the write lock.
ReplCall(a) ==
  /\ pl[ReplProc].stage = "idle"
  /\ ncalls < MaxCalls
  /\ ncalls' = ncalls + 1
  /\ issued' = Append(issued, a)
  /\ pl' = [pl EXCEPT ![ReplProc] = Pipeline("waitlock", a)]
  /\ cmd' = Command(CommandOf(a), TypedFor(a), 1, None)
  /\ UNCHANGED <<store, state, history, lock, origin, spawned_by, log, aux>>

\* A printing arm that also clears the address book.
ReplPrint_Dispatching(name) ==
  /\ AtPrompt
  /\ ncalls < MaxCalls
  /\ ncalls' = ncalls + 1
  /\ issued' = Append(issued, RemoveAllContacts)
  /\ pl' = [pl EXCEPT ![ReplProc] = Pipeline("waitlock", RemoveAllContacts)]
  /\ cmd' = Command(name, None, 1, None)
  /\ UNCHANGED <<store, state, history, lock, origin, spawned_by, log, aux>>

\* An arm that only prints: "help", and "ip" / "air", whose spawned probe
\* prints its answer and never touches the Store.
PrintingCommands == {"help", "ip", "air"}

ReplPrint(name) ==
  /\ AtPrompt
  /\ cmd' = Command(name, None, 0, None)
  /\ UNCHANGED <<store, state, history, lock, pl, ncalls, issued, origin,
                 spawned_by, log, aux>>

\* "quit" => break, "exit" => break: the loop ends and main returns.
ReplQuit(name) ==
  /\ AtPrompt
  /\ cmd' = Command(name, None, 0, None)
  /\ Shutdown("exited")
  /\ UNCHANGED <<store, state, history, ncalls, issued, origin, spawned_by,
                 log, aux>>

\* "remove" with a line that is not an identifier: id.parse().unwrap()
\* panics while the argument of dispatch is being built.
ReplRemoveUnparsed(text) ==
  /\ AtPrompt
  /\ parse(text) = Err
  /\ cmd' = Command("remove", Some(text), 0, None)
  /\ Shutdown("panicked")
  /\ UNCHANGED <<store, state, history, ncalls, issued, origin, spawned_by,
                 log, aux>>

\* "remove" / "search" when readline_with_prompt itself fails: the Err arm
\* prints "Invalid id" (both arms print this text).
ReplReadlineErr(name) ==
  /\ AtPrompt
  /\ cmd' = Command(name, None, 0, Some("Invalid id"))
  /\ UNCHANGED <<store, state, history, lock, pl, ncalls, issued, origin,
                 spawned_by, log, aux>>

\* A catch-all that falls into the "clear" arm.
ReplUnknown_Clearing(input) ==
  /\ AtPrompt
  /\ ncalls < MaxCalls
  /\ ncalls' = ncalls + 1
  /\ issued' = Append(issued, RemoveAllContacts)
  /\ pl' = [pl EXCEPT ![ReplProc] = Pipeline("waitlock", RemoveAllContacts)]
  /\ cmd' = Command(input, None, 1, Some("Unknown command"))
  /\ UNCHANGED <<store, state, history, lock, origin, spawned_by, log, aux>>

\* The catch-all arm: prints "Unknown command".
ReplUnknown(input) ==
  /\ AtPrompt
  /\ cmd' = Command(input, None, 0, Some("Unknown command"))
  /\ UNCHANGED <<store, state, history, lock, pl, ncalls, issued, origin,
                 spawned_by, log, aux>>

\* History::clone behind the read lock: what the caller gets and what the
\* Store keeps.
get_history_draining(h) == [returned |-> h, kept |-> <<>>]

get_history(h) == [returned |-> h, kept |-> h]

\* "history": store.get_history().await, printed. The read lock is granted
\* when no dispatch holds the write lock.
ReplHistory ==
  /\ AtPrompt
  /\ lock = NoProc
  /\ history' = get_history(history).kept
  /\ cmd' = [Command("history", None, 0, None)
               EXCEPT !.shown = Some(get_history(history).returned)]
  /\ UNCHANGED <<store, state, lock, pl, ncalls, issued, origin, spawned_by,
                 log, aux>>

\* The first stage of the pipeline a lock holder enters.
EnterPipeline(rec) ==
  IF Len(store.middleware) > 0
  THEN [rec EXCEPT !.stage = "mw", !.idx = 1]
  ELSE [rec EXCEPT !.stage = "reduce", !.idx = 1]

\* Store::dispatch: self.write().await, then dispatch_action.
StoreDispatchLock ==
  /\ pl[ReplProc].stage = "waitlock"
  /\ lock = NoProc
  /\ lock' = ReplProc
  /\ pl' = [pl EXCEPT ![ReplProc] = EnterPipeline(@)]
  /\ UNCHANGED <<store, state, history, ncalls, issued, origin, spawned_by,
                 log, cmd, aux>>

(* ------------------------------------------------- the dispatch pipeline *)

MiddlewareAt(rec) == store.middleware[rec.idx]

\* The call of the middleware registered under `name`.
MiddlewareCall(name, action, fetched) ==
  CASE name = "logger_mw" -> logger_mw(action)
    [] name = "add_async_cmd_mw" -> add_async_cmd_mw(action)
    [] name = "AddAsyncCmdMw" -> AddAsyncCmdMw_run(action, fetched)

\* A Store that drops what a middleware returns.
Substitute_Ignoring(cur, ret) == cur

\* Some(action2) replaces the action for the rest of the pipeline, None
\* leaves it.
Substitute(cur, ret) == IF ret = None THEN cur ELSE ret

\* The pipeline position after the middleware at rec.idx returned r.
AfterMiddleware(rec, r) ==
  LET done == [rec EXCEPT !.cur = Substitute(rec.cur, r.ret),
                          !.trace = Append(@, MiddlewareAt(rec)),
                          !.delayed = FALSE, !.fetched = None,
                          !.spawned = NoProc]
  IN  IF rec.idx < Len(store.middleware)
      THEN [done EXCEPT !.idx = rec.idx + 1]
      ELSE [done EXCEPT !.stage = "reduce", !.idx = 1]

\* The thread sleep of logger_mw (DELAY_ENABLED), inside the middleware call.
LoggerDelay(p) ==
  /\ pl[p].stage = "mw"
  /\ MiddlewareAt(pl[p]) = "logger_mw"
  /\ ~pl[p].delayed
  /\ pl' = [pl EXCEPT ![p].delayed = TRUE]
  /\ UNCHANGED <<store, state, history, lock, ncalls, issued, origin,
                 spawned_by, log, cmd, aux>>

\* fake_contact_data_api().await inside AddAsyncCmdMw::run.
AddAsyncCmdMwFetch(p) ==
  /\ pl[p].stage = "mw"
  /\ MiddlewareAt(pl[p]) = "AddAsyncCmdMw"
  /\ pl[p].cur = MwAsyncAddCmd
  /\ pl[p].fetched = None
  /\ \E r \in ProviderResults :
       pl' = [pl EXCEPT ![p].fetched = r, ![p].answer = r]
  /\ UNCHANGED <<store, state, history, lock, ncalls, issued, origin,
                 spawned_by, log, cmd, aux>>

UnbornTasks == {t \in Tasks : pl[t].stage = "unborn"}
NextTask == CHOOSE t \in UnbornTasks : \A u \in UnbornTasks : t <= u

\* What the middleware at the pipeline position does with the current action.
CurrentCall(rec) == MiddlewareCall(MiddlewareAt(rec), rec.cur, rec.fetched)

FetchPending(rec) ==
  /\ MiddlewareAt(rec) = "AddAsyncCmdMw"
  /\ rec.cur = MwAsyncAddCmd
  /\ rec.fetched = None

\* tokio::spawn inside the middleware call: the task exists from here on and
\* runs beside the rest of the call.
MiddlewareSpawn(p) ==
  /\ pl[p].stage = "mw"
  /\ ~FetchPending(pl[p])
  /\ CurrentCall(pl[p]).spawns
  /\ pl[p].spawned = NoProc
  /\ UnbornTasks /= {}
  /\ pl' = [pl EXCEPT ![p].spawned = NextTask,
                      ![NextTask] = Pipeline("outer", None)]
  /\ spawned_by' = [spawned_by EXCEPT ![NextTask] = [by |-> p, call |-> ncalls]]
  /\ UNCHANGED <<store, state, history, lock, ncalls, issued, origin, log,
                 cmd, aux>>

\* The middleware at the pipeline position returns to the Store.
RunMiddleware(p) ==
  /\ pl[p].stage = "mw"
  /\ ~FetchPending(pl[p])
  /\ LET r == CurrentCall(pl[p])
     IN  /\ r.spawns => pl[p].spawned /= NoProc
         /\ r.spawns /\ r.awaits => pl[pl[p].spawned].stage = "done"
         /\ pl' = [pl EXCEPT ![p] = AfterMiddleware(@, r)]
         /\ log' = IF r.logs THEN Append(log, pl[p].cur) ELSE log
  /\ UNCHANGED <<store, state, history, lock, ncalls, issued, origin,
                 spawned_by, cmd, aux>>

ReducerCall(name, s, a) ==
  CASE name = "address_book_reducer" -> address_book_reducer(s, a)

\* Reducers that write the published State as they go.
Reduce_InPlace(p) ==
  /\ pl[p].stage = "reduce"
  /\ LET rec == pl[p]
         next == ReducerCall(store.reducers[rec.idx], state, rec.cur)
         done == [rec EXCEPT !.work = next,
                             !.trace = Append(@, store.reducers[rec.idx])]
     IN  /\ state' = next
         /\ pl' = [pl EXCEPT ![p] =
                     IF rec.idx < Len(store.reducers)
                     THEN [done EXCEPT !.idx = rec.idx + 1]
                     ELSE [done EXCEPT !.stage = "commit", !.idx = 0]]
  /\ UNCHANGED <<store, history, lock, ncalls, issued, origin, spawned_by,
                 log, cmd, aux>>

\* One reducer folds the action into the state being built.
Reduce(p) ==
  /\ pl[p].stage = "reduce"
  /\ LET rec == pl[p]
         from == IF rec.idx = 1 THEN state ELSE rec.work
         next == ReducerCall(store.reducers[rec.idx], from, rec.cur)
         done == [rec EXCEPT !.work = next,
                             !.trace = Append(@, store.reducers[rec.idx])]
     IN  pl' = [pl EXCEPT ![p] =
                  IF rec.idx < Len(store.reducers)
                  THEN [done EXCEPT !.idx = rec.idx + 1]
                  ELSE [done EXCEPT !.stage = "commit", !.idx = 0]]
  /\ UNCHANGED <<store, state, history, lock, ncalls, issued, origin,
                 spawned_by, log, cmd, aux>>

\* History append and publication of the new State.
Commit(p) ==
  /\ pl[p].stage = "commit"
  /\ history' = Append(history, pl[p].cur)
  /\ origin' = Append(origin, [by |-> p, answer |-> pl[p].answer])
  /\ state' = pl[p].work
  /\ pl' = [pl EXCEPT ![p] =
              [@ EXCEPT !.trace = Append(@, "commit"),
                        !.stage = IF Len(store.subscribers) > 0
                                  THEN "notify" ELSE "return",
                        !.idx = IF Len(store.subscribers) > 0 THEN 1 ELSE 0]]
  /\ UNCHANGED <<store, lock, ncalls, issued, spawned_by, log, cmd, aux>>

\* Notification that stops at the first Subscriber that fails.
AfterSubscriber_AbortOnFailure(rec, ok) ==
  LET done == [rec EXCEPT
                 !.trace = Append(@, store.subscribers[rec.idx]),
                 !.notes = Append(@, [sub |-> store.subscribers[rec.idx],
                                      st |-> state, ok |-> ok,
                                      hlen |-> Len(history)])]
  IN  IF ok /\ rec.idx < Len(store.subscribers)
      THEN [done EXCEPT !.idx = rec.idx + 1]
      ELSE [done EXCEPT !.stage = "return", !.idx = 0]

\* The pipeline position after the subscriber at rec.idx ran (ok) or failed.
AfterSubscriber(rec, ok) ==
  LET done == [rec EXCEPT
                 !.trace = Append(@, store.subscribers[rec.idx]),
                 !.notes = Append(@, [sub |-> store.subscribers[rec.idx],
                                      st |-> state, ok |-> ok,
                                      hlen |-> Len(history)])]
  IN  IF rec.idx < Len(store.subscribers)
      THEN [done EXCEPT !.idx = rec.idx + 1]
      ELSE [done EXCEPT !.stage = "return", !.idx = 0]

\* One subscriber is invoked with the published State.
Notify(p) ==
  /\ pl[p].stage = "notify"
  /\ pl' = [pl EXCEPT ![p] = AfterSubscriber(@, TRUE)]
  /\ UNCHANGED <<store, state, history, lock, ncalls, issued, origin,
                 spawned_by, log, cmd, aux>>

\* dispatch_action returns and the write guard is dropped.
Return(p) ==
  /\ pl[p].stage = "return"
  /\ lock' = IF lock = p THEN NoProc ELSE lock
  /\ pl' = [pl EXCEPT ![p] =
              [@ EXCEPT !.stage = IF p = ReplProc THEN "idle" ELSE "done",
                        !.work = None, !.notes = <<>>, !.result = "ok"]]
  /\ UNCHANGED <<store, state, history, ncalls, issued, origin, spawned_by,
                 log, cmd, aux>>

(* ------------------------------------------------ the fire-and-forget task *)

\* The task add_async_cmd_mw spawned runs add_async_cmd_impl, which spawns the
\* inner task and returns.
TaskOuter(t) ==
  /\ pl[t].stage = "outer"
  /\ pl' = [pl EXCEPT ![t].stage = "fetch"]
  /\ UNCHANGED <<store, state, history, lock, ncalls, issued, origin,
                 spawned_by, log, cmd, aux>>

\* fake_contact_data_api().await and the construction of the AddContact action.
TaskFetch(t) ==
  /\ pl[t].stage = "fetch"
  /\ \E r \in ProviderResults :
       pl' = [pl EXCEPT ![t] = [Pipeline("waitlock", BuildAddContact(r))
                                  EXCEPT !.answer = r]]
  /\ UNCHANGED <<store, state, history, lock, ncalls, issued, origin,
                 spawned_by, log, cmd, aux>>

\* The task enters dispatch_action without waiting for the write lock.
TaskLock_NoWait(t) ==
  /\ pl[t].stage = "waitlock"
  /\ lock' = t
  /\ pl' = [pl EXCEPT ![t] = EnterPipeline(@)]
  /\ UNCHANGED <<store, state, history, ncalls, issued, origin, spawned_by,
                 log, cmd, aux>>

\* let mut my_store = store_ref.write().await; then dispatch_action.
TaskLock(t) ==
  /\ pl[t].stage = "waitlock"
  /\ lock = NoProc
  /\ lock' = t
  /\ pl' = [pl EXCEPT ![t] = EnterPipeline(@)]
  /\ UNCHANGED <<store, state, history, ncalls, issued, origin, spawned_by,
                 log, cmd, aux>>

(* ------------------------------------------------------------- failures *)

\* A stage before publication fails: the call ends with the failure, the
\* guard is dropped, nothing is published.
DispatchFail(p) ==
  /\ pl[p].stage \in {"mw", "reduce", "commit"}
  /\ lock' = IF lock = p THEN NoProc ELSE lock
  /\ pl' = [pl EXCEPT ![p] =
              [Pipeline("crashed", @.cur) EXCEPT !.result = "failed",
                                                 !.trace = <<pl[p].stage>>]]
  /\ UNCHANGED <<store, state, history, ncalls, issued, origin, spawned_by,
                 log, cmd, aux>>

\* A subscriber fails; the failure is contained and notification goes on.
NotifyFail(p) ==
  /\ pl[p].stage = "notify"
  /\ pl' = [pl EXCEPT ![p] = AfterSubscriber(@, FALSE)]
  /\ UNCHANGED <<store, state, history, lock, ncalls, issued, origin,
                 spawned_by, log, cmd, aux>>

(* ------------------------------------------------------- tree operations *)

storeVars == <<store, state, history, lock, pl, ncalls, issued, origin,
               spawned_by, log, cmd, termVars, poolVars, lockVars>>

UnbornNodes == {n \in NodeIds : nodes[n].st = "unborn"}

\* The node the next allocation makes.
NextNode == CHOOSE n \in UnbornNodes : \A m \in UnbornNodes : n <= m

\* The holders a thread in the middle of an add has borrowed.
Borrowed(n) ==
  \E th \in Threads :
    adding[th] # NotAdding /\ n \in {adding[th].parent, adding[th].child}

\* A caller can name node n: its NodeRefHolder exists and is not the local
\* new_child of an add_child call that is still running.
Held(n) ==
  /\ nodes[n].holder
  /\ ~\E th \in Threads : adding[th].fresh /\ adding[th].child = n

\* NodeRefHolder::new(value), called by a user of the tree.
TreeNew(value) ==
  /\ UnbornNodes # {}
  /\ nodes' = [nodes EXCEPT ![NextNode] = NodeRefHolder_new(value)]
  /\ UNCHANGED <<adding, nadds, times_added, storeVars>>

\* A push that stores a second reference to the child in the list.
PushChild_Twice(ns, parent, child) ==
  [ns EXCEPT ![parent].children = Append(Append(@, child), child)]

\* my_children.push(child.get_internal_ref_copy()) under the write lock of
\* the parent's children.
PushChild(ns, parent, child) ==
  [ns EXCEPT ![parent].children = Append(@, child)]

\* A parent link that keeps the parent alive: the child counts as one more
\* owner of the parent.
SetParent_Strong(ns, parent, child) ==
  [ns EXCEPT ![child].parent = parent, ![parent].copies = @ + 1]

\* *childs_parent = Arc::downgrade(&self.get_internal_ref_copy()) under the
\* write lock of the child's parent; the copy is a temporary.
SetParent(ns, parent, child) ==
  [ns EXCEPT ![child].parent = parent]

\* parent.add_child_and_update_its_parent(&child), first block.
AddChildPush(th, parent, child) ==
  /\ adding[th] = NotAdding
  /\ nadds < MaxAdds
  /\ Held(parent)
  /\ Held(child)
  /\ nodes' = PushChild(nodes, parent, child)
  /\ adding' = [adding EXCEPT ![th] = Adding(parent, child, FALSE)]
  /\ nadds' = nadds + 1
  /\ times_added' = [times_added EXCEPT ![child] = @ + 1]
  /\ UNCHANGED storeVars

\* parent.add_child(value): NodeRefHolder::new(value), then the first block
\* of add_child_and_update_its_parent.
AddChildNew(th, parent, value) ==
  /\ adding[th] = NotAdding
  /\ nadds < MaxAdds
  /\ Held(parent)
  /\ UnbornNodes # {}
  /\ nodes' = PushChild([nodes EXCEPT ![NextNode] = NodeRefHolder_new(value)],
                        parent, NextNode)
  /\ adding' = [adding EXCEPT ![th] = Adding(parent, NextNode, TRUE)]
  /\ nadds' = nadds + 1
  /\ times_added' = [times_added EXCEPT ![NextNode] = @ + 1]
  /\ UNCHANGED storeVars

\* The second block of add_child_and_update_its_parent. For add_child the
\* call then returns new_child.get_internal_ref_copy() and new_child, the
\* holder, goes out of scope.
AddChildSetParent(th) ==
  /\ adding[th] # NotAdding
  /\ LET parent == adding[th].parent
         child == adding[th].child
         linked == SetParent(nodes, parent, child)
     IN  nodes' = IF adding[th].fresh
                  THEN [linked EXCEPT ![child].holder = FALSE,
                                      ![child].copies = 1]
                  ELSE linked
  /\ adding' = [adding EXCEPT ![th] = NotAdding]
  /\ UNCHANGED <<nadds, times_added, storeVars>>

\* A NodeRefHolder goes out of scope; one that a running add has borrowed
\* cannot.
DropHolder(n) ==
  /\ nodes[n].holder
  /\ ~Borrowed(n)
  /\ nodes' = DropUnowned([nodes EXCEPT ![n].holder = FALSE])
  /\ UNCHANGED <<adding, nadds, times_added, storeVars>>

\* A NodeRef a caller holds goes out of scope.
DropCopy(n) ==
  /\ nodes[n].copies > 0
  /\ nodes' = DropUnowned([nodes EXCEPT ![n].copies = @ - 1])
  /\ UNCHANGED <<adding, nadds, times_added, storeVars>>

(* ---------------------------------------------------- raw mode operations *)

otherVars == <<store, state, history, lock, pl, ncalls, issued, origin,
               spawned_by, log, cmd, nodes, adding, nadds, times_added,
               poolVars,
               lockVars>>

\* The guards the running function activation holds.
TopGuards == frames[Len(frames)]

\* Drop for RawMode, once per guard dropped: terminal::disable_raw_mode().
DropGuards(count) ==
  /\ disables' = disables + count
  /\ raw_on' = IF count > 0 THEN FALSE ELSE raw_on

\* `let _ = RawMode::start();`: the guard is dropped where it is made.
RawModeStart_Unbound ==
  /\ frames # <<>>
  /\ enables < MaxBlocks
  /\ enables' = enables + 1
  /\ disables' = disables + 1
  /\ raw_on' = FALSE
  /\ UNCHANGED <<frames, left_by, otherVars>>

\* raw_mode!: let _raw_mode = RawMode::start(); the block's statement runs
\* with the guard alive.
RawModeStart ==
  /\ frames # <<>>
  /\ enables < MaxBlocks
  /\ TopGuards < MaxDepth
  /\ enables' = enables + 1
  /\ raw_on' = TRUE
  /\ frames' = [frames EXCEPT ![Len(frames)] = @ + 1]
  /\ UNCHANGED <<disables, left_by, otherVars>>

\* The statement of a raw_mode! block calls a function, as repl() in the
\* examples.
CallFunction ==
  /\ frames # <<>>
  /\ Len(frames) < MaxFrames
  /\ frames' = Append(frames, 0)
  /\ UNCHANGED <<raw_on, enables, disables, left_by, otherVars>>

\* The end of the innermost raw_mode! block is reached: _raw_mode goes out
\* of scope.
BlockEnd ==
  /\ frames # <<>>
  /\ TopGuards > 0
  /\ frames' = [frames EXCEPT ![Len(frames)] = @ - 1]
  /\ DropGuards(1)
  /\ left_by' = "normal"
  /\ UNCHANGED <<enables, otherVars>>

\* `return` or `?` leaves the running function from inside its open blocks:
\* every guard of the activation goes out of scope.
LeaveFunction(path) ==
  /\ frames # <<>>
  /\ path \in {"return", "error"}
  /\ frames' = SubSeq(frames, 1, Len(frames) - 1)
  /\ DropGuards(TopGuards)
  /\ left_by' = path
  /\ UNCHANGED <<enables, otherVars>>

(* ------------------------------------------------ tree lock operations *)
\* The write guards of add_child_and_update_its_parent; what is written
\* under them is AddChildPush and AddChildSetParent above.

unlockedVars == <<store, state, history, lock, pl, ncalls, issued, origin,
                  spawned_by, log, cmd, nodes, adding, nadds,
                  times_added, termVars, poolVars>>

\* The guards thread th holds.
GuardsOf(th) == {l \in RwLocks : rwlock[l] = th}

\* A thread calls add_child_and_update_its_parent on any two nodes.
AddChildCall(th, parent, child) ==
  /\ tpc[th] = NotInCall
  /\ tpc' = [tpc EXCEPT ![th] = InCall("want_my_children", parent, child)]
  /\ UNCHANGED <<rwlock, unlockedVars>>

\* The first block ends with its guard still alive.
DropMyChildren_Keeping(th) ==
  /\ tpc[th].at = "my_children"
  /\ tpc' = [tpc EXCEPT ![th].at = "want_childs_parent"]
  /\ UNCHANGED <<rwlock, unlockedVars>>

\* let mut my_children = self.strong_ref.children.write().unwrap();
LockMyChildren(th) ==
  /\ tpc[th].at = "want_my_children"
  /\ rwlock[<<tpc[th].parent, "children">>] = NoThread
  /\ rwlock' = [rwlock EXCEPT ![<<tpc[th].parent, "children">>] = th]
  /\ tpc' = [tpc EXCEPT ![th].at = "my_children"]
  /\ UNCHANGED unlockedVars

\* my_children.push(..); the block ends and the guard is dropped.
DropMyChildren(th) ==
  /\ tpc[th].at = "my_children"
  /\ rwlock' = [rwlock EXCEPT ![<<tpc[th].parent, "children">>] = NoThread]
  /\ tpc' = [tpc EXCEPT ![th].at = "want_childs_parent"]
  /\ UNCHANGED unlockedVars

\* let mut childs_parent = child.strong_ref.parent.write().unwrap();
LockChildsParent(th) ==
  /\ tpc[th].at = "want_childs_parent"
  /\ rwlock[<<tpc[th].child, "parent">>] = NoThread
  /\ rwlock' = [rwlock EXCEPT ![<<tpc[th].child, "parent">>] = th]
  /\ tpc' = [tpc EXCEPT ![th].at = "childs_parent"]
  /\ UNCHANGED unlockedVars

\* *childs_parent = Arc::downgrade(..); the block ends, the guard is dropped
\* and the call returns.
DropChildsParent(th) ==
  /\ tpc[th].at = "childs_parent"
  /\ rwlock' = [rwlock EXCEPT ![<<tpc[th].child, "parent">>] = NoThread]
  /\ tpc' = [tpc EXCEPT ![th] = NotInCall]
  /\ UNCHANGED unlockedVars

(* ------------------------------------------- runtime thread operations *)

restVars == <<store, state, history, lock, pl, ncalls, issued, origin,
              spawned_by, log, cmd, nodes, adding, nadds, times_added,
              termVars, lockVars>>

\* The runtime starts with n worker threads.
RuntimeStart(n) ==
  /\ worker_threads = 0
  /\ worker_threads' = n
  /\ UNCHANGED <<dtask, ndisp, restVars>>

\* store.dispatch_spawn(action): the dispatch becomes a task of the runtime.
DispatchSpawn(s) ==
  /\ worker_threads > 0
  /\ dtask[s] = "none"
  /\ ndisp[s] < MaxDispatches
  /\ dtask' = [dtask EXCEPT ![s] = "queued"]
  /\ ndisp' = [ndisp EXCEPT ![s] = @ + 1]
  /\ UNCHANGED <<worker_threads, restVars>>

\* Worker threads that are running a task.
BusyWorkers ==
  Cardinality({s \in StoreInstances : dtask[s] \in {"locked", "sleeping", "rest"}})

\* A free worker thread takes the task; the dispatch takes the write lock of
\* its own Store and starts the pipeline.
TaskPoll(s) ==
  /\ dtask[s] = "queued"
  /\ BusyWorkers < worker_threads
  /\ dtask' = [dtask EXCEPT ![s] = "locked"]
  /\ UNCHANGED <<worker_threads, ndisp, restVars>>

\* logger_mw with DELAY_ENABLED: std::thread::sleep puts the worker thread
\* itself to sleep.
LoggerSleep(s) ==
  /\ dtask[s] = "locked"
  /\ dtask' = [dtask EXCEPT ![s] = "sleeping"]
  /\ UNCHANGED <<worker_threads, ndisp, restVars>>

\* The sleep is over; logger_mw spawns the print and returns None.
LoggerWake(s) ==
  /\ dtask[s] = "sleeping"
  /\ dtask' = [dtask EXCEPT ![s] = "rest"]
  /\ UNCHANGED <<worker_threads, ndisp, restVars>>

\* The rest of the pipeline; the dispatch returns and the worker is free.
DispatchReturn(s) ==
  /\ dtask[s] = "rest"
  /\ dtask' = [dtask EXCEPT ![s] = "none"]
  /\ UNCHANGED <<worker_threads, ndisp, restVars>>

(* ------------------------------------------------------- specifications *)

PipelineStep(p) ==
  \/ LoggerDelay(p)
  \/ AddAsyncCmdMwFetch(p)
  \/ MiddlewareSpawn(p)
  \/ RunMiddleware(p)
  \/ Reduce(p)
  \/ Commit(p)
  \/ Notify(p)
  \/ Return(p)

TaskStep(t) ==
  \/ TaskOuter(t)
  \/ TaskFetch(t)
  \/ TaskLock(t)

Next ==
  \/ \E a \in ReplActions(store) : ReplCall(a)
  \/ StoreDispatchLock
  \/ \E p \in Procs : PipelineStep(p)
  \/ \E t \in Tasks : TaskStep(t)

Spec == Init /\ [][Next]_vars

\* The runtime schedules every spawned task and every running call; the
\* write lock of tokio's RwLock is handed out fairly (FIFO).
Fairness ==
  /\ \A p \in Procs : WF_vars(PipelineStep(p))
  /\ \A t \in Tasks : WF_vars(TaskOuter(t) \/ TaskFetch(t))
  /\ \A t \in Tasks : SF_vars(TaskLock(t))
  /\ SF_vars(StoreDispatchLock)

FairSpec == Spec /\ Fairness

NextFail ==
  \/ Next
  \/ \E p \in Procs : DispatchFail(p)
  \/ \E p \in Procs : NotifyFail(p)

FailSpec == Init /\ [][NextFail]_vars

\* The command loop with every arm of its match.
ReplArm ==
  \/ \E name \in PrintingCommands : ReplPrint(name)
  \/ \E name \in {"quit", "exit"} : ReplQuit(name)
  \/ \E text \in IdTexts : ReplRemoveUnparsed(text)
  \/ \E name \in {"remove", "search"} : ReplReadlineErr(name)
  \/ \E input \in UnknownInputs : ReplUnknown(input)
  \/ ReplHistory

NextRepl ==
  \/ Next
  \/ ReplArm

ReplSpec == Init /\ [][NextRepl]_vars

\* The tree, used from two threads.
TreeInit == Init /\ store = create_store

TreeNext ==
  \/ \E value \in NewValues : TreeNew(value)
  \/ \E th \in Threads, parent, child \in NodeIds :
       AddChildPush(th, parent, child)
  \/ \E th \in Threads, parent \in NodeIds, value \in ChildValues :
       AddChildNew(th, parent, value)
  \/ \E th \in Threads : AddChildSetParent(th)
  \/ \E n \in NodeIds : DropHolder(n) \/ DropCopy(n)

TreeSpec == TreeInit /\ [][TreeNext]_vars

\* Functions that use raw_mode! blocks.
RawModeNext ==
  \/ RawModeStart
  \/ CallFunction
  \/ BlockEnd
  \/ \E path \in ExitPaths : LeaveFunction(path)

RawModeSpec == TreeInit /\ [][RawModeNext]_vars

\* Threads calling add_child_and_update_its_parent on any nodes.
LockStep(th) ==
  \/ LockMyChildren(th)
  \/ DropMyChildren(th)
  \/ LockChildsParent(th)
  \/ DropChildsParent(th)

LockNext ==
  \/ \E th \in Threads, parent, child \in NodeIds :
       AddChildCall(th, parent, child)
  \/ \E th \in Threads : LockStep(th)

LockSpec == TreeInit /\ [][LockNext]_vars

\* Every thread keeps running and a thread waiting for a write guard that
\* keeps becoming free gets it.
FairLockSpec ==
  /\ LockSpec
  /\ \A th \in Threads :
       /\ WF_vars(DropMyChildren(th) \/ DropChildsParent(th))
       /\ SF_vars(LockMyChildren(th) \/ LockChildsParent(th))

\* Dispatches on two Stores under one runtime.
RuntimeNext ==
  \/ \E n \in 1..MaxWorkers : RuntimeStart(n)
  \/ \E s \in StoreInstances : DispatchSpawn(s)
  \/ \E s \in StoreInstances : TaskPoll(s)
  \/ \E s \in StoreInstances : LoggerSleep(s)
  \/ \E s \in StoreInstances : LoggerWake(s)
  \/ \E s \in StoreInstances : DispatchReturn(s)

RuntimeSpec == TreeInit /\ [][RuntimeNext]_vars

\* create_store beside the Store with a middleware after the substituting one.
ChainSpec == InitOf({create_store, chained_store}) /\ [][Next]_vars

(* ------------------------------------------------ helpers of the claims *)

RECURSIVE FoldActions(_, _)
\* The State after folding the actions of h, in order, into s.
FoldActions(s, h) ==
  IF h = <<>> THEN s ELSE FoldActions(address_book_reducer(s, Head(h)), Tail(h))

IsPrefix(a, b) == Len(a) <= Len(b) /\ SubSeq(b, 1, Len(a)) = a

\* The History entries the process p committed, in History order.
RECURSIVE EntriesOf(_, _, _)
EntriesOf(p, h, o) ==
  IF h = <<>> THEN <<>>
  ELSE (IF Head(o).by = p THEN <<[act |-> Head(h), answer |-> Head(o).answer]>>
        ELSE <<>>) \o EntriesOf(p, Tail(h), Tail(o))

\* Calls of the command loop whose dispatch has committed.
CommittedCalls ==
  IF pl[ReplProc].stage \in {"waitlock", "mw", "reduce", "commit"}
  THEN ncalls - 1 ELSE ncalls

AnnContact == AddContact("Ann", "a@b.com", "555")
FallbackContact == AddContact("Foo Bar", "foo@bar.com", "123-456-7890")

\* The contact action a provider answer is expected to become.
ContactFor(answer) == IF answer = Err THEN FallbackContact ELSE AnnContact

NoTaskSpawned == UnbornTasks = Tasks

\* Nothing is running or waiting: the command loop is at its prompt and every
\* spawned task has finished.
Quiescent ==
  /\ pl[ReplProc].stage = "idle"
  /\ \A t \in Tasks : pl[t].stage \in {"unborn", "done"}

(* --------------------------------------------------------------- claims *)

\* C1: the command loop issues its dispatch calls one at a time; the History
\* entries of its first N committed calls are the N post-substitution actions
\* in call order (the trigger of the substituting middleware becomes the
\* contact built from the provider's answer, every other action is recorded
\* as issued), and while no task has been spawned they are the whole History.
C1_OrderPreservation ==
  LET mine == EntriesOf(ReplProc, history, origin)
  IN  /\ Len(mine) = CommittedCalls
      /\ \A k \in 1..Len(mine) :
           mine[k].act = IF issued[k] = MwAsyncAddCmd
                         THEN ContactFor(mine[k].answer)
                         ELSE issued[k]
      /\ NoTaskSpawned => Len(history) = Len(mine)

\* Two sequenced calls with different actions have both committed, the first
\* one substituted by the middleware.
C1_Witness ==
  /\ pl[ReplProc].stage = "idle"
  /\ ncalls = 2
  /\ issued[1] = MwAsyncAddCmd
  /\ issued[2] = RemoveContactById(0)
  /\ history = <<AnnContact, RemoveContactById(0)>>

\* The dispatch call that spawned task t is still running.
SpawnerInCall(t) ==
  LET p == spawned_by[t].by
  IN  /\ p /= NoProc
      /\ InCritical(p)
      /\ p = ReplProc => spawned_by[t].call = ncalls

\* C2: while the dispatch call whose middleware spawned a fire-and-forget task
\* is still running, that task's dispatch has not completed (the call returns
\* first), and every process that waits for the write lock, the command loop
\* and the task alike, gets through its dispatch and returns.
C2_NoSelfDeadlock ==
  /\ [](\A t \in Tasks : SpawnerInCall(t) => pl[t].stage \notin {"return", "done"})
  /\ \A p \in Procs :
       (pl[p].stage = "waitlock") ~> (pl[p].stage \in {"idle", "done"})

\* The task has finished its slow step and waits for the lock that the call
\* which spawned it still holds.
C2_Witness ==
  \E t \in Tasks :
    /\ pl[t].stage = "waitlock"
    /\ SpawnerInCall(t)
    /\ lock = spawned_by[t].by

\* One call of the trigger action was issued, it and the task it caused have
\* finished, and the provider answered with Ann's data.
OneTriggerAnsweredAnn ==
  /\ ncalls = 1
  /\ issued = <<store.trigger>>
  /\ Quiescent
  /\ \A i \in 1..Len(origin) : origin[i].answer /= Err

\* C3 as stated: dispatching the trigger while the provider answers with Ann's
\* data leaves exactly one History entry, AddContact("Ann", "a@b.com", "555"),
\* and never the trigger.
C3_Original == OneTriggerAnsweredAnn => history = <<AnnContact>>

\* C3, amended: with the substituting middleware AddAsyncCmdMw the History is
\* the single entry AddContact("Ann", "a@b.com", "555") and the trigger
\* Mw::AsyncAddCmd is never recorded; with the fire-and-forget middleware
\* add_async_cmd_mw of create_store the trigger AsyncAddContact is recorded by
\* its own dispatch and the task's dispatch appends the contact after it.
C3_Amended ==
  /\ OneTriggerAnsweredAnn =>
       history = IF store.trigger = MwAsyncAddCmd
                 THEN <<AnnContact>>
                 ELSE <<AsyncAddContact, AnnContact>>
  /\ \A i \in 1..Len(history) : history[i] /= MwAsyncAddCmd

\* The fire-and-forget version has finished: trigger and contact are recorded.
C3_Witness ==
  /\ OneTriggerAnsweredAnn
  /\ store = create_store
  /\ Len(history) = 2

\* C4: at most one process is inside the middleware/reducer/commit/notify
\* section at any time and it holds the write lock; a dispatch starts from the
\* State that folds the whole committed History, and the State it is about to
\* publish is that State with its own action folded in.
C4_Serialized ==
  /\ Cardinality({p \in Procs : InCritical(p)}) <= 1
  /\ \A p \in Procs : InCritical(p) => lock = p
  /\ \A p \in Procs :
       pl[p].stage \in {"mw", "reduce"} => state = FoldActions(DefaultState, history)
  /\ \A p \in Procs :
       pl[p].stage = "commit" => pl[p].work = FoldActions(state, <<pl[p].cur>>)

\* The command loop and a task contend: one is between reduce and commit, the
\* other waits for the lock.
C4_Witness ==
  \E p \in Procs, q \in Procs :
    /\ p /= q
    /\ pl[p].stage = "commit"
    /\ pl[q].stage = "waitlock"

\* C5: History only grows by appending: every step keeps the old History as
\* a prefix and adds at most one entry; State changes only in the step that
\* appends an entry, and becomes the old State with that entry folded in, so
\* State is always the fold of the History and the n-th entry is the action
\* the n-th committed dispatch folded.
C5_AppendOnly ==
  /\ [][/\ IsPrefix(history, history')
        /\ Len(history') <= Len(history) + 1
        /\ state' /= state => Len(history') = Len(history) + 1
        /\ Len(history') = Len(history) + 1 =>
             state' = address_book_reducer(state, history'[Len(history')])]_vars
  /\ [](state = FoldActions(DefaultState, history))

\* The History holds entries of the command loop and of a task, while a
\* failed dispatch has left none.
C5_Witness ==
  /\ Len(history) >= 2
  /\ \E i \in 1..Len(origin) : origin[i].by \in Tasks
  /\ \E p \in Procs : pl[p].stage = "crashed"

\* C6: every State a Subscriber was invoked with is the published State, the
\* last History entry is the action of the very dispatch that invokes it, and
\* that State is the fold of the committed History: never a State between two
\* reducers or of a dispatch that has not committed.
C6_SubscriberSeesCommitted ==
  \A p \in Procs : \A i \in 1..Len(pl[p].notes) :
    LET n == pl[p].notes[i]
    IN  /\ n.hlen >= 1
        /\ n.hlen = Len(history)
        /\ origin[n.hlen].by = p
        /\ history[n.hlen] = pl[p].cur
        /\ n.st = state
        /\ n.st = FoldActions(DefaultState, history)

\* A task's dispatch has notified a Subscriber with a State that holds a
\* contact.
C6_Witness ==
  \E t \in Tasks :
    /\ pl[t].notes /= <<>>
    /\ pl[t].notes[1].st.address_book /= <<>>

\* The stages of one dispatch call on the store, in the order the call must go
\* through them.
ExpectedStages ==
  IF store.trigger = MwAsyncAddCmd
  THEN <<"AddAsyncCmdMw", "address_book_reducer", "commit", "render_fn">>
  ELSE <<"logger_mw", "add_async_cmd_mw", "address_book_reducer", "commit",
         "render_fn">>
         \o (IF Len(store.subscribers) = 2 THEN <<"second_subscriber">> ELSE <<>>)

\* Stages a call has behind it when it stands at the given position.
StagesBefore(rec) ==
  CASE rec.stage = "mw" -> rec.idx - 1
    [] rec.stage = "reduce" -> Len(store.middleware) + rec.idx - 1
    [] rec.stage = "commit" -> Len(store.middleware) + Len(store.reducers)
    [] rec.stage = "notify" ->
         Len(store.middleware) + Len(store.reducers) + rec.idx
    [] OTHER -> Len(ExpectedStages)

\* C7: the stages a dispatch call has gone through are always a prefix of:
\* every middleware in registration order, every reducer, the commit, every
\* Subscriber in registration order; and a call that is about to return or has
\* returned has gone through all of them.
C7_StageOrder ==
  \A p \in Procs :
    /\ IsPrefix(pl[p].trace, ExpectedStages)
    /\ InCritical(p) => Len(pl[p].trace) = StagesBefore(pl[p])
    /\ pl[p].result = "ok" => pl[p].trace = ExpectedStages

\* A call on the store with two Subscribers is about to return.
C7_Witness ==
  \E p \in Procs :
    /\ pl[p].stage = "return"
    /\ Len(pl[p].trace) = 6

\* C8: a dispatch whose provider answer was an error commits exactly the
\* fallback contact ("Foo Bar", "foo@bar.com", "123-456-7890"), as History
\* entry and as the contact added to State, and a call whose provider failed
\* ends like any other: it returns normally, with its entry committed.
C8_FallbackOnProviderFailure ==
  /\ \A i \in 1..Len(history) :
       origin[i].answer = Err =>
         /\ history[i] = AddContact("Foo Bar", "foo@bar.com", "123-456-7890")
         /\ LET book == FoldActions(DefaultState, SubSeq(history, 1, i)).address_book
                c == book[Len(book)]
            IN  /\ c.name = "Foo Bar"
                /\ c.email = "foo@bar.com"
                /\ c.phone = "123-456-7890"
  /\ \A p \in Procs :
       pl[p].answer = Err /\ pl[p].stage \in {"idle", "done"} =>
         /\ pl[p].result = "ok"
         /\ \E i \in 1..Len(origin) : origin[i] = [by |-> p, answer |-> Err]

\* The provider failed for a fire-and-forget task and the task's dispatch has
\* committed and returned.
C8_Witness ==
  \E t \in Tasks :
    /\ pl[t].stage = "done"
    /\ pl[t].answer = Err
    /\ state.address_book /= <<>>

\* C9: whatever Subscribers failed, a dispatch that has finished notifying
\* has invoked every registered Subscriber, in registration order, with the
\* State it committed, and that State is still the published one.
C9_SubscriberIsolation ==
  \A p \in Procs :
    /\ pl[p].stage = "notify" => Len(pl[p].notes) = pl[p].idx - 1
    /\ pl[p].stage = "return" =>
         /\ Len(pl[p].notes) = Len(store.subscribers)
         /\ \A i \in 1..Len(store.subscribers) :
              /\ pl[p].notes[i].sub = store.subscribers[i]
              /\ pl[p].notes[i].st = pl[p].work
         /\ state = pl[p].work
         /\ history[Len(history)] = pl[p].cur

\* With two Subscribers, the first failed and the second was still invoked.
C9_Witness ==
  \E p \in Procs :
    /\ pl[p].stage = "return"
    /\ Len(pl[p].notes) = 2
    /\ ~pl[p].notes[1].ok
    /\ pl[p].notes[2].ok
    /\ state.address_book /= <<>>

\* C10: the step in which a dispatch fails before publication ends the call
\* with the failure, releases the lock and changes neither State nor History:
\* State stays the fold of the committed History.
C10_FailedDispatch ==
  [][\A p \in Procs :
       pl[p].stage /= "crashed" /\ pl'[p].stage = "crashed" =>
         /\ pl'[p].result = "failed"
         /\ lock' /= p
         /\ state' = state
         /\ history' = history
         /\ state' = FoldActions(DefaultState, history')]_vars

\* A dispatch of an AddContact failed after its reducer had run, and neither
\* State nor History shows it.
C10_Witness ==
  \E p \in Procs :
    /\ pl[p].stage = "crashed"
    /\ pl[p].trace = <<"commit">>
    /\ pl[p].cur.type = "AddContact"
    /\ state = DefaultState
    /\ history = <<>>

(* C11 (error_handling): a malformed identifier entered for the remove
   command is reported as a rejected command: the arm makes no dispatch call,
   State and History are unchanged by it, an error is shown and the loop is
   back at its prompt. *)
UnparsedRemoveStep ==
  /\ cmd' # cmd
  /\ cmd'.name = "remove"
  /\ cmd'.typed # None
  /\ parse(cmd'.typed.value) = Err

C11_MalformedIdRejected ==
  [][UnparsedRemoveStep =>
       /\ ncalls' = ncalls
       /\ state' = state
       /\ history' = history
       /\ cmd'.error # None
       /\ pl'[ReplProc].stage = "idle"]_vars

\* The names the match of the command loop has an arm for.
RecognizedCommands ==
  {"help", "quit", "exit", "add-sync", "add-async", "clear", "remove",
   "search", "reset", "history", "ip", "air"}

\* A step in which the loop takes a command.
CommandStep == cmd' # cmd \/ ncalls' # ncalls

(* C12 as stated (functional_correctness): every recognized command of the
   command loop results in exactly one dispatch or dispatch_async call. *)
C12_Original ==
  [][CommandStep /\ cmd'.name \in RecognizedCommands =>
       cmd'.calls = 1 /\ ncalls' = ncalls + 1]_vars

\* The dispatch calls the arm of a command makes, given the line read at the
\* arm's own prompt.
CallsOf(c) ==
  CASE c.name \in {"add-sync", "add-async", "clear", "reset"} -> 1
    [] c.name = "remove" ->
         IF c.typed # None /\ parse(c.typed.value) # Err THEN 1 ELSE 0
    [] c.name = "search" -> IF c.typed # None THEN 1 ELSE 0
    [] OTHER -> 0

(* C12 (functional_correctness), amended: add-sync, add-async, clear and
   reset each make exactly one dispatch (or dispatch_spawn) call, remove and
   search make exactly one when the line of their own prompt is read (and,
   for remove, parses) and none otherwise; help, history, quit, exit, ip and
   air make none. The call made is the one of the command's arm. *)
C12_Amended ==
  [][CommandStep =>
       /\ cmd'.calls = CallsOf(cmd')
       /\ ncalls' = ncalls + cmd'.calls
       /\ cmd'.calls = 1 =>
            /\ issued' = Append(issued, issued'[ncalls'])
            /\ CommandOf(issued'[ncalls']) = cmd'.name
       /\ cmd'.calls = 0 => issued' = issued]_vars

\* "history" was typed after a dispatching command and made no call.
C12_Witness ==
  /\ cmd.name = "history"
  /\ cmd.calls = 0
  /\ ncalls = 1
  /\ Len(history) >= 1

(* C13 (error_handling): input that is not a recognized command shows an
   error and makes no dispatch call; State and History are the same after
   the loop iteration as before it. *)
C13_UnknownCommand ==
  [][CommandStep /\ cmd'.name \notin RecognizedCommands =>
       /\ cmd'.error = Some("Unknown command")
       /\ cmd'.calls = 0
       /\ ncalls' = ncalls
       /\ issued' = issued
       /\ state' = state
       /\ history' = history
       /\ pl' = pl]_vars

\* An unknown command was typed at a Store that already holds a contact.
C13_Witness ==
  /\ cmd.name \in UnknownInputs
  /\ cmd.error = Some("Unknown command")
  /\ Len(history) >= 1
  /\ Len(state.address_book) >= 1

\* The entry the last completed dispatch appended to History.
LastEntry == history[Len(history)]

(* C15 (functional_correctness): after ResetState(s0) is dispatched, from
   any prior State, the State is exactly s0 (no contact from before the
   reset remains) until a later dispatch changes it. *)
C15_ResetCompleteness ==
  (history # <<>> /\ LastEntry.type = "ResetState") =>
    /\ state = LastEntry.new_state
    /\ \A i \in 1..Len(state.address_book) :
         \E j \in 1..Len(LastEntry.new_state.address_book) :
           state.address_book[i] = LastEntry.new_state.address_book[j]

\* A reset was dispatched on a State that held a contact; nothing of it is
\* left.
C15_Witness ==
  /\ Len(history) = 2
  /\ history[1].type = "AddContact"
  /\ Len(FoldActions(DefaultState, <<history[1]>>).address_book) = 1
  /\ LastEntry = ResetState(DefaultState)
  /\ state = DefaultState

\* A step that completes the dispatch of RemoveContactById(id) on a State
\* with no contact of that id.
RemoveAbsentStep ==
  /\ Len(history') = Len(history) + 1
  /\ history'[Len(history')].type = "RemoveContactById"
  /\ \A i \in 1..Len(state.address_book) :
       state.address_book[i].id # history'[Len(history')].id

(* C16 (algebraic_relational): dispatching RemoveContactById(id) on a State
   that has no contact with that id leaves State unchanged and still appends
   the action to History. *)
C16_RemoveAbsent ==
  [][RemoveAbsentStep =>
       /\ state' = state
       /\ history' = Append(history, RemoveContactById(history'[Len(history')].id))]_vars

\* RemoveContactById(1) was dispatched on a book whose only contact has id 0;
\* the contact is still there and the removal is in History.
C16_Witness ==
  /\ Len(history) = 2
  /\ history[1].type = "AddContact"
  /\ LastEntry = RemoveContactById(1)
  /\ Len(state.address_book) = 1
  /\ state.address_book[1].id = 0

(* C17 (frame_effect): get_history returns a read-only snapshot: the call
   changes neither State nor History and returns the History of that moment,
   and a snapshot already returned is not altered by later dispatches. *)
C17_HistorySnapshot ==
  [][/\ (cmd' # cmd /\ cmd'.name = "history") =>
          /\ state' = state
          /\ history' = history
          /\ cmd'.shown = Some(history)
     /\ (cmd.shown # None /\ history' # history) =>
          cmd'.shown = cmd.shown]_vars

\* A task's dispatch was committed after "history" had printed its snapshot:
\* the snapshot is the shorter History of before.
C17_Witness ==
  /\ cmd.name = "history"
  /\ cmd.shown # None
  /\ Len(cmd.shown.value) = 1
  /\ Len(history) = 2
  /\ IsPrefix(cmd.shown.value, history)

(* ------------------------------------------------------ claims on the tree *)

\* Some thread is between the two blocks of an add of child to parent.
MidAdd(parent, child) ==
  \E th \in Threads :
    adding[th] # NotAdding /\ adding[th].parent = parent /\ adding[th].child = child

\* Thread th runs the first block of an add in this step.
PushStep(th) == adding[th] = NotAdding /\ adding'[th] # NotAdding

\* Thread th runs the second block of an add in this step.
SetParentStep(th) == adding[th] # NotAdding /\ adding'[th] = NotAdding

(* C18 as stated (implicit): once a child has been added to a parent, the
   parent's children list contains it and the child's get_parent() returns
   that parent for as long as the parent is alive. *)
C18_Original ==
  \A parent, child \in NodeIds :
    (/\ nodes[parent].st = "live"
     /\ Occurrences(nodes[parent].children, child) > 0
     /\ ~MidAdd(parent, child))
    => get_parent(nodes, child) = Some(parent)

(* C18 (implicit), amended: the first block of an add appends the child to
   the parent's children (length grows by one, the child's value is kept;
   add_child's new node carries the value passed); when the add returns the
   child's get_parent() is that parent and has_parent() is true; and both
   stay so for as long as the parent is alive and no other add of the same
   child completes. *)
C18_Amended ==
  [][/\ \A th \in Threads : PushStep(th) =>
          LET parent == adding'[th].parent
              child == adding'[th].child
          IN  /\ nodes'[parent].children = Append(nodes[parent].children, child)
              /\ nodes'[child].st = "live"
              /\ nodes'[child].value =
                   IF adding'[th].fresh THEN CHOOSE v \in ChildValues : TRUE
                   ELSE nodes[child].value
     /\ \A th \in Threads : SetParentStep(th) =>
          LET parent == adding[th].parent
              child == adding[th].child
          IN  /\ get_parent(nodes', child) = Some(parent)
              /\ has_parent(nodes', child)
              /\ Occurrences(nodes'[parent].children, child) > 0
              /\ nodes'[child].value = nodes[child].value
     /\ \A parent, child \in NodeIds :
          (/\ get_parent(nodes, child) = Some(parent)
           /\ nodes'[parent].st = "live"
           /\ nodes'[child].st = "live"
           /\ ~\E th \in Threads : SetParentStep(th) /\ adding[th].child = child)
          => /\ get_parent(nodes', child) = Some(parent)
             /\ nodes'[child].value = nodes[child].value
     /\ \A parent, child \in NodeIds :
          nodes'[parent].st = "live" =>
            Occurrences(nodes'[parent].children, child)
              >= Occurrences(nodes[parent].children, child)]_vars

\* parent.add_child(3) has returned on a parent of value 5: the child is in
\* the parent's list once and names the parent.
C18_Witness ==
  \E parent, child \in NodeIds :
    /\ parent # child
    /\ \A th \in Threads : adding[th] = NotAdding
    /\ nodes[parent].children = <<child>>
    /\ nodes[parent].value = 5
    /\ nodes[child].value = 3
    /\ nodes[child].copies = 1
    /\ get_parent(nodes, child) = Some(parent)

\* Node n is alive, was given a parent, and that parent has been freed.
Orphaned(ns, n) ==
  /\ ns[n].st = "live"
  /\ ns[n].parent # NoNode
  /\ ns[ns[n].parent].st = "freed"

\* In the step that frees a parent, a child some caller still holds stays
\* alive with its value and has no parent any more.
SurvivesParent(child) ==
  \A parent \in NodeIds :
    (/\ nodes[parent].st = "live"
     /\ nodes'[parent].st = "freed"
     /\ nodes[child].parent = parent
     /\ nodes'[child].holder \/ nodes'[child].copies > 0)
    => /\ nodes'[child].st = "live"
       /\ nodes'[child].value = nodes[child].value
       /\ ~has_parent(nodes', child)
       /\ get_parent(nodes', child) = None

(* C19 as stated (temporal): when every strong owner of a parent is dropped,
   a child still held elsewhere survives with its value intact and becomes
   an orphan: has_parent() is false and get_parent() is None from then on. *)
C19_Original ==
  [][\A child \in NodeIds :
       /\ SurvivesParent(child)
       /\ (Orphaned(nodes, child) /\ nodes'[child].st = "live") =>
            get_parent(nodes', child) = None]_vars

(* C19 (temporal), amended: when every strong owner of a parent is dropped,
   a child still held elsewhere survives with its value intact and becomes
   an orphan: has_parent() is false and get_parent() is None until the child
   is added to another parent. *)
C19_Amended ==
  [][\A child \in NodeIds :
       /\ SurvivesParent(child)
       /\ (/\ Orphaned(nodes, child)
           /\ nodes'[child].st = "live"
           /\ ~\E th \in Threads : SetParentStep(th) /\ adding[th].child = child)
          => /\ Orphaned(nodes', child)
             /\ get_parent(nodes', child) = None
             /\ nodes'[child].value = nodes[child].value]_vars

\* The child add_child(3) returned outlives its parent: the caller's NodeRef
\* keeps it alive, its value is 3 and its parent is gone.
C19_Witness ==
  \E child \in NodeIds :
    /\ Orphaned(nodes, child)
    /\ nodes[child].copies = 1
    /\ ~nodes[child].holder
    /\ nodes[child].value = 3
    /\ ~has_parent(nodes, child)

\* The strong references to child that a step gives back by freeing nodes
\* whose children lists held it.
RECURSIVE GivenBack(_, _)
GivenBack(set, child) ==
  IF set = {} THEN 0
  ELSE LET n == CHOOSE x \in set : TRUE
       IN  (IF nodes[n].st = "live" /\ nodes'[n].st = "freed"
            THEN Occurrences(nodes[n].children, child) ELSE 0)
           + GivenBack(set \ {n}, child)

\* The owners of node n among the callers: its holder and their NodeRefs.
CallerRefs(ns, n) == (IF ns[n].holder THEN 1 ELSE 0) + ns[n].copies

\* In a step that drops a caller's reference, a node that stays alive loses
\* the references the callers dropped and those of the freed nodes' lists.
DropGivesBack ==
  (adding' = adding /\ nodes' # nodes) =>
    \A n \in NodeIds :
      (nodes[n].st = "live" /\ nodes'[n].st = "live") =>
        strong_count(nodes', n) =
          strong_count(nodes, n)
            - (CallerRefs(nodes, n) - CallerRefs(nodes', n))
            - GivenBack(NodeIds, n)

(* C20 as stated (invariants): adding a child creates exactly one new strong
   reference to the child (held by the parent's children list) and exactly
   one weak reference to the parent, and no strong reference to the parent:
   the parent's strong count is unchanged, the child's weak count is
   unchanged, and dropping the parent gives back the one strong reference it
   held to the child. *)
C20_Original ==
  [][/\ \A th \in Threads : PushStep(th) =>
          LET parent == adding'[th].parent
              child == adding'[th].child
          IN  /\ strong_count(nodes', child) =
                   (IF adding'[th].fresh THEN 1 ELSE strong_count(nodes, child)) + 1
              /\ strong_count(nodes', parent) = strong_count(nodes, parent)
              /\ weak_count(nodes', parent) = weak_count(nodes, parent)
              /\ weak_count(nodes', child) = weak_count(nodes, child)
     /\ \A th \in Threads : SetParentStep(th) =>
          LET parent == adding[th].parent
              child == adding[th].child
          IN  /\ weak_count(nodes', parent) = weak_count(nodes, parent) + 1
              /\ weak_count(nodes', child) = weak_count(nodes, child)
              /\ strong_count(nodes', parent) = strong_count(nodes, parent)
              /\ strong_count(nodes', child) = strong_count(nodes, child)
     /\ DropGivesBack]_vars

(* C20 (invariants), amended: adding a child creates exactly one new strong
   reference, to the child (held by the parent's children list), and exactly
   one weak reference, to the parent, which replaces the weak reference the
   child held before; no other count changes. So when the child is a
   different node from the parent the add leaves the parent's strong count
   unchanged, and when the child named no live node before it leaves the
   child's weak count unchanged. Dropping a node gives back the strong
   references its children list held. *)
C20_Amended ==
  [][/\ \A th \in Threads : PushStep(th) =>
          LET parent == adding'[th].parent
              child == adding'[th].child
          IN  /\ Occurrences(nodes'[parent].children, child) =
                   Occurrences(nodes[parent].children, child) + 1
              /\ strong_count(nodes', child) =
                   (IF adding'[th].fresh THEN 1 ELSE strong_count(nodes, child)) + 1
              /\ \A n \in NodeIds \ {child} :
                   strong_count(nodes', n) = strong_count(nodes, n)
              /\ \A n \in NodeIds :
                   weak_count(nodes', n) = weak_count(nodes, n)
     /\ \A th \in Threads : SetParentStep(th) =>
          LET parent == adding[th].parent
              child == adding[th].child
          IN  /\ nodes'[child].parent = parent
              /\ \A n \in NodeIds :
                   weak_count(nodes', n) =
                     weak_count(nodes, n)
                       + (IF n = parent THEN 1 ELSE 0)
                       - (IF n = nodes[child].parent THEN 1 ELSE 0)
              /\ \A n \in NodeIds :
                   strong_count(nodes', n) = strong_count(nodes, n)
     /\ DropGivesBack]_vars

\* The counts of test_tree_low_level_node_manipulation after the add, taken
\* without the temporary copy the test measures through: the child has its
\* holder and its place in the parent's list, the parent its holder and one
\* weak reference.
C20_Witness ==
  \E parent, child \in NodeIds :
    /\ parent # child
    /\ \A th \in Threads : adding[th] = NotAdding
    /\ nodes[parent].holder /\ nodes[child].holder
    /\ nodes[parent].children = <<child>>
    /\ get_parent(nodes, child) = Some(parent)
    /\ strong_count(nodes, child) = 2
    /\ weak_count(nodes, child) = 0
    /\ strong_count(nodes, parent) = 1
    /\ weak_count(nodes, parent) = 1

(* -------------------------------------------------- claims on raw mode *)

\* RawMode guards alive in the whole program.
LiveGuards(fs) == SumSeq(fs)

(* C21 (temporal): raw mode is enabled when the guard is created and is
   disabled when the enclosed block ends, on every exit path (normal end,
   early return, error propagation with ?): every guard that goes out of
   scope calls disable once, enables and disables are balanced, and raw mode
   is not on once no block is open. *)
C21_RawModeBalanced ==
  [][/\ enables' = enables + 1 =>
          /\ raw_on'
          /\ LiveGuards(frames') = LiveGuards(frames) + 1
          /\ disables' = disables
     /\ LiveGuards(frames') < LiveGuards(frames) =>
          /\ disables' = disables + (LiveGuards(frames) - LiveGuards(frames'))
          /\ ~raw_on'
          /\ left_by' \in ExitPaths
     /\ enables' = disables' + LiveGuards(frames')
     /\ LiveGuards(frames') = 0 => ~raw_on']_vars

\* An error propagated with ? out of a function that had two blocks open:
\* both guards were dropped and raw mode is off.
C21_Witness ==
  /\ left_by = "error"
  /\ frames = <<>>
  /\ enables = 2
  /\ disables = 2
  /\ ~raw_on

\* A network fetch of process p ends in this step: the awaited
\* fake_contact_data_api() of AddAsyncCmdMw::run or of add_async_cmd_impl.
FetchStep(p) ==
  \/ pl[p].stage = "mw" /\ pl[p].fetched = None /\ pl'[p].fetched /= None
  \/ pl[p].stage = "fetch" /\ pl'[p].stage = "waitlock"

\* C22: no network fetch of a middleware happens while the process that makes
\* it holds the Store's write lock; the only suspension inside the dispatch
\* critical section is the simulated-latency delay of the logging middleware,
\* which does not call back into the Store.
C22_NoSuspensionInCriticalSection ==
  [][\A p \in Procs : FetchStep(p) => lock /= p]_vars

\* Task t is spawned in this step (tokio::spawn in add_async_cmd_mw).
SpawnStep(t) == pl[t].stage = "unborn" /\ pl'[t].stage = "outer"

\* Task t gets through store_ref.write().await and calls dispatch_action.
TaskDispatchStep(t) == pl[t].stage = "waitlock" /\ pl'[t].stage = "mw"

Received(p) ==
  IF p = ReplProc THEN issued[ncalls] ELSE BuildAddContact(pl[p].answer)

RECURSIVE ThroughMiddleware(_, _, _)
\* The action after the first n registered middleware, in registration order,
\* each given what the one before it left: the action it returned, or the
\* action it was given when it returned None.
ThroughMiddleware(p, n, action) ==
  IF n = 0 THEN action
  ELSE LET given == ThroughMiddleware(p, n - 1, action)
           ret == MiddlewareCall(store.middleware[n], given, pl[p].answer).ret
       IN  IF ret = None THEN given ELSE ret

\* What comes out of the whole middleware chain for the call of p.
Reduced(p) == ThroughMiddleware(p, Len(store.middleware), Received(p))

AllReturnNone == \A i \in 1..Len(store.middleware) :
                   store.middleware[i] /= "AddAsyncCmdMw"

\* The logging middleware logs in this step, called by process p.
LoggerStep(p) ==
  /\ pl[p].stage = "mw"
  /\ MiddlewareAt(pl[p]) = "logger_mw"
  /\ log' /= log

\* C24: the middleware at position i is given the action as the middleware
\* before it left it (the action returned with Some, else the action passed
\* on), so a middleware registered after a substituting one receives and logs
\* the substitute; the reducers fold the action that left the chain, History
\* records it, and when every middleware returns None that is the action the
\* call was given.
C24_SubstitutionThroughPipeline ==
  /\ [](\A p \in Procs :
          /\ pl[p].stage = "mw" /\ ~FetchPending(pl[p]) =>
               pl[p].cur = ThroughMiddleware(p, pl[p].idx - 1, Received(p))
          /\ pl[p].stage \in {"reduce", "commit", "notify", "return"} =>
               /\ pl[p].cur = Reduced(p)
               /\ AllReturnNone => pl[p].cur = Received(p)
          /\ pl[p].stage = "commit" =>
               pl[p].work = address_book_reducer(state, Reduced(p))
          /\ pl[p].stage \in {"notify", "return"} =>
               /\ history[Len(history)] = Reduced(p)
               /\ state = pl[p].work)
  /\ [][\A p \in Procs :
          LoggerStep(p) =>
            log' = Append(log, ThroughMiddleware(p, pl[p].idx - 1, Received(p)))]_vars

\* The trigger was substituted by the first middleware; the logging
\* middleware after it logged the contact, and the contact was reduced and
\* recorded.
C24_Witness ==
  /\ store = chained_store
  /\ pl[ReplProc].stage = "return"
  /\ issued[ncalls] = MwAsyncAddCmd
  /\ log = <<AnnContact>>
  /\ history = <<AnnContact>>
  /\ state = address_book_reducer(DefaultState, AnnContact)

\* C25: while the dispatch on one Store is in the artificial delay of the
\* logging middleware, a dispatch on another Store that is ready to run can
\* start.
C25_DelayDoesNotBlockOtherStore ==
  \A s, o \in StoreInstances :
    s /= o /\ dtask[s] = "sleeping" /\ dtask[o] = "queued" =>
      ENABLED TaskPoll(o)

\* Process p takes a step inside the logging middleware: its delay or its
\* return.
InLoggerStep(p) ==
  /\ pl[p].stage = "mw"
  /\ MiddlewareAt(pl[p]) = "logger_mw"
  /\ pl'[p] /= pl[p]

\* C26: the logging middleware returns None for every action and asks for no
\* task that dispatches; a step inside it leaves State, History, the write
\* lock, the action in the pipeline and the tasks as they are and never ends
\* the call; when it returns the pipeline goes on with the same action and the
\* log has grown by exactly that action.
C26_LoggerFrame ==
  /\ [](\A a \in ReplActions(store) \cup {AnnContact, FallbackContact} :
          logger_mw(a) = MwResult(None, FALSE, FALSE, TRUE))
  /\ [][\A p \in Procs :
          InLoggerStep(p) =>
            /\ state' = state /\ history' = history /\ lock' = lock
            /\ ncalls' = ncalls /\ issued' = issued
            /\ \A q \in Procs \ {p} : pl'[q] = pl[q]
            /\ pl'[p].cur = pl[p].cur
            /\ pl'[p].stage \in {"mw", "reduce"}
            /\ \/ log' = log /\ pl'[p].delayed /\ ~pl[p].delayed
               \/ /\ log' = Append(log, pl[p].cur)
                  /\ pl'[p].trace = Append(pl[p].trace, "logger_mw")]_vars

\* The logging middleware has delayed, logged the trigger and returned; the
\* next middleware has the trigger and nothing is committed.
C26_Witness ==
  /\ store = create_store
  /\ pl[ReplProc].stage = "mw"
  /\ pl[ReplProc].idx = 2
  /\ pl[ReplProc].cur = AsyncAddContact
  /\ log = <<AsyncAddContact>>
  /\ history = <<>>
  /\ state = DefaultState

\* Calls of the command loop that dispatched Action::AsyncAddContact and have
\* got through add_async_cmd_mw.
TriggersThrough ==
  {i \in 1..ncalls :
     /\ issued[i] = AsyncAddContact
     /\ i = ncalls /\ pl[ReplProc].stage \in {"waitlock", "mw"} =>
          pl[ReplProc].spawned /= NoProc}

SpawnedTasks == Tasks \ UnbornTasks

\* History entries committed by fire-and-forget tasks.
TaskCommits == {i \in 1..Len(history) : origin[i].by \in Tasks}

\* C27: add_async_cmd_mw spawns one task for each AsyncAddContact that passes
\* it and none for any other action; a task commits at most one action, the
\* AddContact built from its provider answer or from the fallback, and has
\* committed it when it is done; under fair scheduling every spawned task
\* gets done, so k triggers lead to k committed AddContact actions.
C27_OneAddContactPerTrigger ==
  /\ [](/\ Cardinality(SpawnedTasks) = Cardinality(TriggersThrough)
        /\ \A t \in SpawnedTasks :
             /\ spawned_by[t].by = ReplProc
             /\ spawned_by[t].call \in TriggersThrough
             /\ \A u \in SpawnedTasks \ {t} :
                  spawned_by[u].call /= spawned_by[t].call
             /\ LET mine == EntriesOf(t, history, origin)
                IN  /\ Len(mine) <= 1
                    /\ Len(mine) = 1 => mine[1].act = ContactFor(mine[1].answer)
                    /\ pl[t].stage = "done" => Len(mine) = 1
        /\ Cardinality(TaskCommits) <= Cardinality(TriggersThrough)
        /\ Quiescent => Cardinality(TaskCommits) = Cardinality(TriggersThrough))
  /\ \A k \in 1..MaxCalls :
       (Cardinality(TriggersThrough) >= k) ~> (Cardinality(TaskCommits) >= k)

\* Two triggers, one answered by the provider and one not, have led to two
\* committed contacts.
C27_Witness ==
  /\ store = create_store
  /\ issued = <<AsyncAddContact, AsyncAddContact>>
  /\ Quiescent
  /\ Cardinality(TaskCommits) = 2
  /\ \E i, j \in TaskCommits :
       history[i] = AnnContact /\ history[j] = FallbackContact

\* C28: the dispatch of a fire-and-forget task asks for no further task at
\* any middleware and no task is spawned by a task, so the dispatches
\* committed never exceed the calls of the command loop plus one per trigger;
\* whenever something is running or waiting the system gets, under fair
\* scheduling, to a state where nothing is, with the write lock free.
C28_RedispatchTerminates ==
  /\ [](/\ \A t \in Tasks :
             /\ pl[t].stage = "mw" => ~CurrentCall(pl[t]).spawns
             /\ pl[t].stage = "mw" => pl[t].spawned = NoProc
             /\ spawned_by[t].by \notin Tasks
        /\ Len(history) <= ncalls + Cardinality(TriggersThrough)
        /\ Quiescent => lock = NoProc)
  /\ (~Quiescent) ~> (Quiescent /\ lock = NoProc)

\* One trigger has caused two dispatches, its own and the task's, and
\* nothing runs any more.
C28_Witness ==
  /\ store = create_store
  /\ issued = <<AsyncAddContact>>
  /\ Quiescent
  /\ lock = NoProc
  /\ Len(history) = 2
  /\ history[1] = AsyncAddContact
  /\ origin[2].by \in Tasks

\* C29: a thread inside add_child_and_update_its_parent holds at most one
\* write guard at any time, never the parent's children guard together with
\* the child's parent guard, and every call, whatever the other threads call
\* and on whichever nodes, gets both guards in turn and returns.
C29_NoDeadlock ==
  /\ [](\A th \in Threads :
          /\ Cardinality(GuardsOf(th)) <= 1
          /\ tpc[th].at \in {"idle", "want_my_children", "want_childs_parent"} =>
               GuardsOf(th) = {}
          /\ tpc[th].at = "my_children" =>
               GuardsOf(th) = {<<tpc[th].parent, "children">>}
          /\ tpc[th].at = "childs_parent" =>
               GuardsOf(th) = {<<tpc[th].child, "parent">>})
  /\ \A th \in Threads : (tpc[th] /= NotInCall) ~> (tpc[th] = NotInCall)

\* Two threads add two nodes to each other: one is in its second block, the
\* other in its first.
C29_Witness ==
  /\ tpc["t1"] = InCall("childs_parent", 1, 2)
  /\ tpc["t2"] = InCall("my_children", 2, 1)

\* No add_child_and_update_its_parent call is between its two blocks.
NoAddInProgress == \A th \in Threads : adding[th] = NotAdding

AddedAtMostOnce == \A n \in NodeIds : times_added[n] <= 1

LiveNodes == {n \in NodeIds : nodes[n].st = "live"}

\* C30: when no add is in progress and no node has been added as a child
\* more than once, every node in the children list of a live node p has p as
\* its get_parent(), and every live node whose get_parent() is p is in p's
\* children list exactly once.
C30_LinksConsistent ==
  NoAddInProgress /\ AddedAtMostOnce =>
    \A p \in LiveNodes :
      /\ \A i \in 1..Len(nodes[p].children) :
           get_parent(nodes, nodes[p].children[i]) = Some(p)
      /\ \A c \in LiveNodes :
           get_parent(nodes, c) = Some(p) =>
             Occurrences(nodes[p].children, c) = 1

\* A parent with two children, one made by add_child and one added with
\* add_child_and_update_its_parent, each added once, both adds finished.
C30_Witness ==
  /\ NoAddInProgress
  /\ AddedAtMostOnce
  /\ \E p \in LiveNodes :
       /\ Len(nodes[p].children) = 2
       /\ nodes[p].children[1] /= nodes[p].children[2]
       /\ \A i \in 1..2 : get_parent(nodes, nodes[p].children[i]) = Some(p)
       /\ \E i \in 1..2 : nodes[nodes[p].children[i]].holder
       /\ \E i \in 1..2 : nodes[nodes[p].children[i]].copies = 1

====
